---- MODULE Spec2Model ----
(***************************************************************************)
(* Model of the H3 cell resolution core of src/src/lib/h3-utils.ts:        *)
(* the point-cell cache (getH3CellInfo, clearH3Cache) and the viewport     *)
(* sampler (getH3CellsInBounds).                                           *)
(*                                                                         *)
(* Coordinates are fixed-point integers: one unit is 10^-7 degree, so the  *)
(* seventh fractional digit, the one toFixed(6) rounds away, is visible.   *)
(***************************************************************************)
EXTENDS Integers, Sequences, FiniteSets, TLC

VARIABLES
    cellCache,   \* the module-level Map: a sequence of entries in insertion order
    rejectPts,   \* the points <<lat, lng>> that latLngToCell rejects (fixed per run)
    rejectIds,   \* the cell identifiers that cellToBoundary rejects (fixed per run)
    ret,         \* observation: the last call of getH3CellInfo / clearH3Cache
    bornAt,      \* history: key -> the tick of its latest insertion
    tick,        \* history: number of insertions since the cache was last empty
    firstRet,    \* history: <<lat, lng, resolution>> -> the first record a call with these arguments returned
    pc,          \* getH3CellsInBounds: "idle", "outer", "inner" or "done"
    bounds,      \* getH3CellsInBounds: the argument { north, south, east, west }
    resolution,  \* getH3CellsInBounds: the argument resolution
    lat,         \* the outer loop variable
    lng,         \* the inner loop variable
    cells,       \* the result list under construction
    seenCells,   \* the Set of identifiers seen
    visited,     \* history: the sample points the scan has reached
    nCalls,      \* history: latLngToCell calls of the scan so far, up to CallCap
    firstSeen,   \* history: the identifiers latLngToCell produced, in order of first production
    idCalls,     \* history: the cellToBoundary / getResolution calls of the scan, in order
    enumRet,     \* observation: the last completed call of getH3CellsInBounds
    zoomRet,     \* observation: the last call of getH3ResolutionForZoom
    zoomPrev,    \* observation: the call of getH3ResolutionForZoom before it
    grid,        \* H3HexagonLayer: the call of updateGridCells in progress, or the last one
    gridCells,   \* H3HexagonLayer: the state gridCells
    multiResCells, \* H3HexagonLayer: the state multiResCells, resolution -> list
    isVisible,   \* H3HexagonLayer: the state isVisible
    scanLog,     \* history: <<bounds, resolution>> -> the list single-resolution mode got
    mapZoom,     \* MapContainer: the state zoom
    cursorPos,   \* MapContainer: the state cursorPos, Null or an object
    debouncedCursorPos, \* useDebounce(cursorPos, 100): the state debouncedValue
    cellInfo,    \* MapContainer: the state cellInfo
    showCellInfo, \* MapContainer: the state showCellInfo
    isTouchDevice, \* CursorTracker: 'ontouchstart' in window
    touchEndTimeout, \* CursorTracker: the state touchEndTimeout, 0 for null or a timer id
    layerCellInfo, \* H3HexagonLayer: the state cellInfo
    timers,      \* the pending setTimeout timers: [id, kind, left, value]
    frames,      \* the number of pending requestAnimationFrame callbacks
    nextId,      \* the number of objects and timers created so far
    stableFor,   \* history: time since cursorPos last changed, up to the delay
    touching,    \* history: a touchmove came and no touchend since
    sinceTouch,  \* history: time since the last touchmove or touchend, up to 2 s
    lastMove,    \* history: the last pair handleCursorMove was called with, or Null
    urlParams,   \* useSearchParams: the parameters lat, lng, zoom of the URL
    urlState,    \* useUrlState: the state returned at the last render
    urlWritten   \* history: the state updateState wrote last, or Null

envVars == <<rejectPts, rejectIds>>
cacheVars == <<cellCache, ret, bornAt, tick, firstRet>>
scanVars == <<pc, bounds, resolution, lat, lng, cells, seenCells, visited,
              nCalls, firstSeen, idCalls, enumRet>>
zoomVars == <<zoomRet, zoomPrev>>
gridVars == <<grid, gridCells, multiResCells, isVisible, scanLog>>
mapVars == <<mapZoom, cursorPos, debouncedCursorPos, cellInfo, showCellInfo,
             isTouchDevice, touchEndTimeout, layerCellInfo, timers, frames,
             nextId, stableFor, touching, sinceTouch, lastMove>>
appVars == <<gridVars, mapVars>>
urlVars == <<urlParams, urlState, urlWritten>>
vars == <<envVars, cacheVars, scanVars, zoomVars, appVars, urlVars>>

----------------------------------------------------------------------------
(* Program constants and units *)

MAX_CACHE_SIZE == 100

\* units per degree
Deg == 10^7

----------------------------------------------------------------------------
(* Bounds of the model *)

\* Init starts from the empty cache or from a cache already filled with
\* MAX_CACHE_SIZE - k keys, k in 0..Slack
Slack == 1

\* the count of latLngToCell calls of one scan stops at CallCap (a scan of
\* a box of zero height or width makes calls without end)
CallCap == 290

----------------------------------------------------------------------------
(* The indexing primitive (h3-js), as the core sees it: a deterministic    *)
(* partition of the plane into cells per res, which may reject a    *)
(* point or an identifier.                                                 *)

\* edge of a cell in units; it shrinks with the res, and at
\* res 15 a cell is a few quantization buckets wide
CellSize(res) == 50 * 3^(15 - res)

\* h3-js latLngToCell: the identifier carries the res and the cell
latLngToCell(la, lo, res) ==
    <<res, la \div CellSize(res), lo \div CellSize(res)>>

latLngToCellThrows(la, lo, res) ==
    res \notin 0..15 \/ <<la, lo>> \in rejectPts

\* h3-js cellToBoundary: the ring of the cell, as <<lat, lng>> vertices
cellToBoundary(h3Index) ==
    LET s  == CellSize(h3Index[1])
        la == h3Index[2] * s
        lo == h3Index[3] * s
    IN  << <<la, lo>>, <<la, lo + s>>, <<la + s, lo + s>>, <<la + s, lo>> >>

cellToBoundaryThrows(h3Index) == h3Index \in rejectIds

\* h3-js getResolution
getResolution(h3Index) == h3Index[1]

----------------------------------------------------------------------------
(* The cache key *)

\* Number.prototype.toFixed(6) of x/10^7: the sign is printed whenever
\* x < 0 (so -0.00000004 gives "-0.000000"), the magnitude is rounded to
\* the nearest 10^-6, the larger one on a tie. The string is modelled by
\* its sign and its digits.
toFixed6(x) ==
    LET mag == IF x < 0 THEN -x ELSE x
    IN  <<x < 0, (mag + 5) \div 10>>

\* `${lat.toFixed(6)},${lng.toFixed(6)},${resolution}`
cacheKeyOf(la, lo, res) == <<toFixed6(la), toFixed6(lo), res>>

isValidCoordinate(la, lo) ==
    la >= -90 * Deg /\ la <= 90 * Deg /\ lo >= -180 * Deg /\ lo <= 180 * Deg

----------------------------------------------------------------------------
(* Map operations *)

Keys(cache) == {cache[i].key : i \in 1..Len(cache)}

\* Map.prototype.has
Has(cache, key) == key \in Keys(cache)

\* Map.prototype.get of a key that is present
Get(cache, key) == (CHOOSE i \in 1..Len(cache) : cache[i].key = key)

Value(cache, key) == cache[Get(cache, key)].value

\* the H3CellInfo object built on a miss
H3CellInfo(h3Index) ==
    [h3Index    |-> h3Index,
     resolution |-> getResolution(h3Index),
     boundary   |-> cellToBoundary(h3Index)]

NoValue == [h3Index |-> <<>>, resolution |-> -1, boundary |-> <<>>]

----------------------------------------------------------------------------
(* getH3CellInfo, step by step *)

\* lines 52-54: a hit reads the Map and returns; the Map is not touched
LruAfterHit(cache, key) ==
    LET i == Get(cache, key)
    IN  Append(SubSeq(cache, 1, i - 1) \o SubSeq(cache, i + 1, Len(cache)), cache[i])
AfterHit(cache, key) ==
    cache

\* lines 75-80: FIFO eviction of the first key of the Map when it is full
EvictWhenOver(cache) ==
    IF Len(cache) > MAX_CACHE_SIZE THEN Tail(cache) ELSE cache
EvictNewest(cache) ==
    IF Len(cache) >= MAX_CACHE_SIZE THEN SubSeq(cache, 1, Len(cache) - 1) ELSE cache
Evict(cache) ==
    IF Len(cache) >= MAX_CACHE_SIZE THEN Tail(cache) ELSE cache

\* line 83: Map.set of a key that is absent appends the entry
Store(cache, key, value) ==
    Append(Evict(cache), [key |-> key, value |-> value])

\* lines 58-65: a throw of the primitive leaves the function before line 75
EvictThenThrow(cache) ==
    Evict(cache)
AfterThrow(cache) ==
    cache

Outcome(la, lo, res, hit, threw, value, prim) ==
    [op |-> "getH3CellInfo", lat |-> la, lng |-> lo, res |-> res,
     key |-> cacheKeyOf(la, lo, res), hit |-> hit, threw |-> threw,
     value |-> value, prim |-> prim]

Remember(args, value) ==
    IF args \in DOMAIN firstRet
    THEN firstRet
    ELSE [a \in DOMAIN firstRet \cup {args} |->
            IF a = args THEN value ELSE firstRet[a]]

\* lines 41-85
Resolve(la, lo, res) ==
    LET cacheKey == cacheKeyOf(la, lo, res)
        h3Index  == latLngToCell(la, lo, res)
        result   == H3CellInfo(h3Index)
    IN  /\ UNCHANGED <<envVars, zoomVars, scanVars>>
        /\ IF Has(cellCache, cacheKey)
           THEN /\ cellCache' = AfterHit(cellCache, cacheKey)
                /\ ret' = Outcome(la, lo, res, TRUE, FALSE,
                                  Value(cellCache, cacheKey), <<>>)
                /\ firstRet' = Remember(<<la, lo, res>>, Value(cellCache, cacheKey))
                /\ UNCHANGED <<bornAt, tick>>
           ELSE IF latLngToCellThrows(la, lo, res)
           THEN /\ cellCache' = AfterThrow(cellCache)
                /\ ret' = Outcome(la, lo, res, FALSE, TRUE, NoValue,
                                  <<"latLngToCell">>)
                /\ UNCHANGED <<bornAt, tick, firstRet>>
           ELSE IF cellToBoundaryThrows(h3Index)
           THEN /\ cellCache' = AfterThrow(cellCache)
                /\ ret' = Outcome(la, lo, res, FALSE, TRUE, NoValue,
                                  <<"latLngToCell", "cellToBoundary">>)
                /\ UNCHANGED <<bornAt, tick, firstRet>>
           ELSE /\ cellCache' = Store(cellCache, cacheKey, result)
                /\ ret' = Outcome(la, lo, res, FALSE, FALSE, result,
                                  <<"latLngToCell", "cellToBoundary", "getResolution">>)
                /\ firstRet' = Remember(<<la, lo, res>>, result)
                /\ tick' = tick + 1
                /\ bornAt' = [k \in DOMAIN bornAt \cup {cacheKey} |->
                                IF k = cacheKey THEN tick + 1 ELSE bornAt[k]]

\* a call from outside the map components
getH3CellInfo(la, lo, res) ==
    /\ Resolve(la, lo, res)
    /\ UNCHANGED appVars
    /\ UNCHANGED urlVars

\* lines 112-114
clearH3Cache ==
    /\ cellCache' = <<>>
    /\ ret' = [op |-> "clearH3Cache"]
    /\ tick' = 0
    /\ bornAt' = <<>>
    /\ UNCHANGED <<envVars, zoomVars, urlVars, appVars, scanVars, firstRet>>

----------------------------------------------------------------------------
(* getH3ResolutionForZoom (zoom-resolution-map.ts) *)

\* the chain of tests, in order: <<threshold, resolution returned>>
ZoomTable ==
    << <<2, 0>>, <<4, 1>>, <<5, 2>>, <<6, 3>>, <<7, 4>>, <<8, 5>>, <<9, 6>>,
       <<10, 7>>, <<11, 8>>, <<12, 9>>, <<13, 10>>, <<14, 11>>, <<15, 12>>,
       <<16, 13>>, <<17, 14>> >>

\* the chain with the last return wrapping round to 0
ZoomFallsToZero(zoom) ==
    IF \E i \in 1..Len(ZoomTable) : zoom <= ZoomTable[i][1]
    THEN ZoomTable[CHOOSE i \in 1..Len(ZoomTable) :
                      /\ zoom <= ZoomTable[i][1]
                      /\ \A j \in 1..(i - 1) : ~(zoom <= ZoomTable[j][1])][2]
    ELSE 0

\* the chain with < for <=
ZoomStrictTests(zoom) ==
    IF \E i \in 1..Len(ZoomTable) : zoom < ZoomTable[i][1]
    THEN ZoomTable[CHOOSE i \in 1..Len(ZoomTable) :
                      /\ zoom < ZoomTable[i][1]
                      /\ \A j \in 1..(i - 1) : ~(zoom < ZoomTable[j][1])][2]
    ELSE 15

\* the chain with the test of line 22 returning 9 as line 21 does
ZoomSkipsTen(zoom) ==
    IF \E i \in 1..Len(ZoomTable) : zoom <= ZoomTable[i][1]
    THEN LET r == ZoomTable[CHOOSE i \in 1..Len(ZoomTable) :
                      /\ zoom <= ZoomTable[i][1]
                      /\ \A j \in 1..(i - 1) : ~(zoom <= ZoomTable[j][1])][2]
         IN  IF r = 10 THEN 9 ELSE r
    ELSE 15

\* the first test that succeeds returns; when none does the result is 15
getH3ResolutionForZoom(zoom) ==
    IF \E i \in 1..Len(ZoomTable) : zoom <= ZoomTable[i][1]
    THEN ZoomTable[CHOOSE i \in 1..Len(ZoomTable) :
                      /\ zoom <= ZoomTable[i][1]
                      /\ \A j \in 1..(i - 1) : ~(zoom <= ZoomTable[j][1])][2]
    ELSE 15

NoZoom == [op |-> "none"]

\* no call of getH3ResolutionForZoom has been made
ZoomIdle ==
    /\ zoomRet = NoZoom
    /\ zoomPrev = NoZoom

\* H3HexagonLayer before its first effect: the initial useState values
NoGrid ==
    [phase |-> "idle", multi |-> FALSE, zoom |-> 0,
     bounds |-> [north |-> 0, south |-> 0, east |-> 0, west |-> 0],
     requested |-> <<>>, todo |-> <<>>, out |-> <<>>]

GridIdle ==
    /\ grid = NoGrid
    /\ gridCells = <<>>
    /\ multiResCells = <<>>
    /\ isVisible = FALSE
    /\ scanLog = <<>>

\* useDebounce's delay at its one use and by default
DebounceDelay == 100

\* the delay of the timer that clears the layer's cellInfo
FadeDelay == 200

\* the delay of the timer that clears the cursor after a touch has ended
TouchEndDelay == 2000

\* the value null, and undefined where the code does not tell them apart
Null == [isNull |-> TRUE]

Timer(id, kind, left, value) ==
    [id |-> id, kind |-> kind, left |-> left, value |-> value]

\* MapContainer and its children after the first render and its effects:
\* the useState initial values, and useDebounce's first timer pending
MapIdle ==
    /\ cursorPos = Null
    /\ debouncedCursorPos = Null
    /\ cellInfo = Null
    /\ showCellInfo = TRUE
    /\ touchEndTimeout = 0
    /\ layerCellInfo = Null
    /\ timers = {Timer(0, "debounce", DebounceDelay, Null),
                 Timer(0, "fade", FadeDelay, Null)}
    /\ frames = 0
    /\ nextId = 0
    /\ stableFor = 0
    /\ touching = FALSE
    /\ sinceTouch = 0
    /\ lastMove = Null

\* the map components are mounted with the default zoom, on a desktop
MapAtRest ==
    /\ MapIdle
    /\ mapZoom = 10
    /\ isTouchDevice = FALSE

AppIdle ==
    /\ GridIdle
    /\ MapAtRest

----------------------------------------------------------------------------
(* The view state in the URL *)

\* a string is the sequence of its characters
Digits == <<"0", "1", "2", "3", "4", "5", "6", "7", "8", "9">>

IsDigit(c) == \E i \in 1..10 : Digits[i] = c

DigitValue(c) == (CHOOSE i \in 1..10 : Digits[i] = c) - 1

\* URLSearchParams.get: null when the parameter is missing, or its string
NoParam == [present |-> FALSE, chars |-> <<>>]

Str(chars) == [present |-> TRUE, chars |-> chars]

\* a missing parameter and an empty string are falsy
Truthy(p) == p.present /\ p.chars # <<>>

\* null and NaN, which the validation treats alike, and a number
NoNumber == [none |-> TRUE, v |-> 0]

Num(v) == [none |-> FALSE, v |-> v]

RECURSIVE SkipWhiteSpace(_, _)
SkipWhiteSpace(s, i) ==
    IF i <= Len(s) /\ s[i] = " " THEN SkipWhiteSpace(s, i + 1) ELSE i

\* the number of digits of s from its i-th character on
RECURSIVE DigitRun(_, _)
DigitRun(s, i) ==
    IF i <= Len(s) /\ IsDigit(s[i]) THEN 1 + DigitRun(s, i + 1) ELSE 0

\* the number written by the n digits of s from its i-th character on
RECURSIVE DigitsValue(_, _, _)
DigitsValue(s, i, n) ==
    IF n = 0 THEN 0
    ELSE DigitsValue(s, i, n - 1) * 10 + DigitValue(s[i + n - 1])

\* parseInt(s, 10): white space, a sign, and the longest run of digits;
\* what follows the digits is ignored, and no digit gives NaN
parseInt(s) ==
    LET i   == SkipWhiteSpace(s, 1)
        neg == i <= Len(s) /\ s[i] = "-"
        j   == IF i <= Len(s) /\ s[i] \in {"-", "+"} THEN i + 1 ELSE i
        n   == DigitRun(s, j)
    IN  IF n = 0 THEN NoNumber
        ELSE Num((IF neg THEN -1 ELSE 1) * DigitsValue(s, j, n))

\* parseFloat(s), in units of 10^-7: white space, a sign, digits, and a
\* point with digits; what follows is ignored, and no digit gives NaN.
\* Digits after the seventh decimal are below the unit and are dropped;
\* the strings of the model have no exponent and no "Infinity".
parseFloat(s) ==
    LET i    == SkipWhiteSpace(s, 1)
        neg  == i <= Len(s) /\ s[i] = "-"
        j    == IF i <= Len(s) /\ s[i] \in {"-", "+"} THEN i + 1 ELSE i
        n    == DigitRun(s, j)
        dot  == j + n <= Len(s) /\ s[j + n] = "."
        f    == IF dot THEN DigitRun(s, j + n + 1) ELSE 0
        kept == IF f > 7 THEN 7 ELSE f
        frac == DigitsValue(s, j + n + 1, kept) * 10^(7 - kept)
    IN  IF n = 0 /\ f = 0 THEN NoNumber
        ELSE Num((IF neg THEN -1 ELSE 1) * (DigitsValue(s, j, n) * Deg + frac))

DEFAULT_STATE == [lat |-> 407128000, lng |-> -74 * Deg - 60000, zoom |-> 10]

getStateFromUrl(params) ==
    LET parsedLat  == IF Truthy(params.lat)
                      THEN parseFloat(params.lat.chars) ELSE NoNumber
        validLat   == IF ~parsedLat.none /\ parsedLat.v >= -90 * Deg
                         /\ parsedLat.v <= 90 * Deg
                      THEN parsedLat ELSE NoNumber
        parsedLng  == IF Truthy(params.lng)
                      THEN parseFloat(params.lng.chars) ELSE NoNumber
        validLng   == IF ~parsedLng.none /\ parsedLng.v >= -180 * Deg
                         /\ parsedLng.v <= 180 * Deg
                      THEN parsedLng ELSE NoNumber
        parsedZoom == IF Truthy(params.zoom)
                      THEN parseInt(params.zoom.chars) ELSE NoNumber
        validZoom  == IF ~parsedZoom.none /\ parsedZoom.v >= 0
                         /\ parsedZoom.v <= 18
                      THEN parsedZoom ELSE NoNumber
    IN  [lat  |-> IF validLat.none THEN DEFAULT_STATE.lat ELSE validLat.v,
         lng  |-> IF validLng.none THEN DEFAULT_STATE.lng ELSE validLng.v,
         zoom |-> IF validZoom.none THEN DEFAULT_STATE.zoom ELSE validZoom.v]

\* the decimal digits of a natural number
RECURSIVE NatToString(_)
NatToString(n) ==
    IF n < 10 THEN <<Digits[n + 1]>>
    ELSE NatToString(n \div 10) \o <<Digits[(n % 10) + 1]>>

\* Number.prototype.toString of an integer
IntToString(z) ==
    IF z < 0 THEN <<"-">> \o NatToString(-z) ELSE NatToString(z)

\* Number.prototype.toFixed(4) of x/10^7: the sign is printed whenever
\* x < 0, the magnitude is rounded to the nearest 10^-4, the larger one on
\* a tie, and printed with four decimals
toFixed4(x) ==
    LET mag == IF x < 0 THEN -x ELSE x
        n   == (mag + 500) \div 1000
        d   == n % 10000
    IN  (IF x < 0 THEN <<"-">> ELSE <<>>)
        \o NatToString(n \div 10000) \o <<".">>
        \o <<Digits[(d \div 1000) + 1], Digits[((d \div 100) % 10) + 1],
             Digits[((d \div 10) % 10) + 1], Digits[(d % 10) + 1]>>

\* the body of updateState: the new fields over the state read from the
\* URL, written as strings, and the render that follows router.replace
WriteUrl(newState) ==
    LET currentState == getStateFromUrl(urlParams)
        updatedState == [k \in {"lat", "lng", "zoom"} |->
                            IF k \in DOMAIN newState THEN newState[k]
                            ELSE currentState[k]]
        params == [lat  |-> Str(toFixed4(updatedState.lat)),
                   lng  |-> Str(toFixed4(updatedState.lng)),
                   zoom |-> Str(IntToString(updatedState.zoom))]
    IN  /\ urlParams' = params
        /\ urlState' = getStateFromUrl(params)
        /\ urlWritten' = updatedState

\* the page is opened without parameters
UrlIdle ==
    /\ urlParams = [lat |-> NoParam, lng |-> NoParam, zoom |-> NoParam]
    /\ urlState = DEFAULT_STATE
    /\ urlWritten = Null

----------------------------------------------------------------------------
\* one call; the function reads and writes no state of the program
ZoomCall(zoom) ==
    /\ zoomRet' = [op         |-> "getH3ResolutionForZoom",
                   zoom       |-> zoom,
                   resolution |-> getH3ResolutionForZoom(zoom)]
    /\ zoomPrev' = zoomRet
    /\ UNCHANGED <<envVars, cacheVars, scanVars, appVars, urlVars>>

----------------------------------------------------------------------------
(* Inputs and initial states *)

LngNYC == -74 * Deg - 60000

\* two raw latitudes one unit apart that share a 6-digit key and lie in
\* different res-15 cells, a third point, a latitude above 90
\* degrees, and the two oldest keys of a filled cache
ResolveLats == {407127999, 407128000, 407128400, 91 * Deg, 10, 20}
ResolveLngs == {LngNYC}
ResolveRes == {15}

\* the points and identifiers the primitive may reject
RejectPtCandidates == {<<407128400, LngNYC>>, <<91 * Deg, LngNYC>>}
RejectIdCandidates == {latLngToCell(407128400, LngNYC, 15)}

\* the i-th of the keys resolved before the run starts
FillerEntry(i) ==
    [key   |-> cacheKeyOf(10 * i, LngNYC, 15),
     value |-> H3CellInfo(latLngToCell(10 * i, LngNYC, 15))]

\* the cache after getH3CellInfo of n distinct keys, starting empty
Filled(n) == [i \in 1..n |-> FillerEntry(i)]

NoBounds == [north |-> 0, south |-> 0, east |-> 0, west |-> 0]

\* no call of getH3CellsInBounds is in progress
ScanIdle ==
    /\ pc = "idle"
    /\ bounds = NoBounds
    /\ resolution = 0
    /\ lat = 0
    /\ lng = 0
    /\ cells = <<>>
    /\ seenCells = {}
    /\ visited = {}
    /\ nCalls = 0
    /\ firstSeen = <<>>
    /\ idCalls = <<>>
    /\ enumRet = [op |-> "none"]

InitCache ==
    /\ \E n \in {0} \cup ((MAX_CACHE_SIZE - Slack)..MAX_CACHE_SIZE) :
          /\ cellCache = Filled(n)
          /\ tick = n
          /\ bornAt = [k \in Keys(Filled(n)) |->
                         CHOOSE i \in 1..n : Filled(n)[i].key = k]
    /\ firstRet = <<>>
    /\ rejectPts \in SUBSET RejectPtCandidates
    /\ rejectIds \in SUBSET RejectIdCandidates
    /\ ret = [op |-> "none"]
    /\ ScanIdle
    /\ ZoomIdle
    /\ UrlIdle
    /\ AppIdle

NextCache ==
    \/ \E la \in ResolveLats, lo \in ResolveLngs, res \in ResolveRes :
          getH3CellInfo(la, lo, res)
    \/ clearH3Cache

SpecCache == InitCache /\ [][NextCache]_vars

----------------------------------------------------------------------------
(* Properties of the point-cell cache *)

\* a step that is one call of getH3CellInfo (a call that repeats the
\* previous one with the same outcome changes nothing and is a stutter)
ResolveStep == ret' # ret /\ ret'.op = "getH3CellInfo"

Filler1Key == FillerEntry(1).key

C2_EvictOnlyWhenFull ==
    /\ [][(ResolveStep /\ ~(Keys(cellCache) \subseteq Keys(cellCache'))) =>
            /\ ~ret'.hit
            /\ ~ret'.threw
            /\ ret'.key \notin Keys(cellCache)
            /\ Len(cellCache) = MAX_CACHE_SIZE
            /\ cellCache' = Append(Tail(cellCache),
                                   [key |-> ret'.key, value |-> ret'.value])
         ]_vars
    /\ [](\A k \in DOMAIN bornAt :
            bornAt[k] + MAX_CACHE_SIZE <= tick => k \notin Keys(cellCache))
    /\ [][(ResolveStep /\ ret'.key \notin Keys(cellCache)) =>
            (~ret'.hit /\ ret'.prim # <<>>)
         ]_vars

\* the first-inserted key, evicted, is resolved again and misses
C2_Witness ==
    /\ ret.op = "getH3CellInfo"
    /\ ret.key = Filler1Key
    /\ ~ret.hit
    /\ ret.prim # <<>>
    /\ tick > MAX_CACHE_SIZE

\* C3: the cache never holds more than MAX_CACHE_SIZE entries.
C3_SizeBounded == Len(cellCache) <= MAX_CACHE_SIZE

\* a miss was stored while the cache was full
C3_Witness ==
    /\ ret.op = "getH3CellInfo"
    /\ ~ret.hit
    /\ ~ret.threw
    /\ Len(cellCache) = MAX_CACHE_SIZE
    /\ tick > MAX_CACHE_SIZE

\* C4: a call whose key is present returns the stored record, calls no
\* primitive function and leaves the Map, order included, as it was.
C4_HitIsPure ==
    [][(ResolveStep /\ ret'.key \in Keys(cellCache)) =>
          /\ ret'.hit
          /\ ~ret'.threw
          /\ ret'.value = Value(cellCache, ret'.key)
          /\ ret'.prim = <<>>
          /\ cellCache' = cellCache
      ]_vars

\* a hit on the oldest key of a full cache
C4_Witness ==
    /\ ret.op = "getH3CellInfo"
    /\ ret.hit
    /\ Len(cellCache) = MAX_CACHE_SIZE
    /\ ret.key = Head(cellCache).key

\* C5: a call with a coordinate outside the valid ranges fails before any
\* primitive function is called, and no entry is ever cached for it.
C5_InvalidCoordinateRejected ==
    /\ (ret.op = "getH3CellInfo" /\ ~isValidCoordinate(ret.lat, ret.lng)) =>
          (ret.threw /\ ret.prim = <<>>)
    /\ \A i \in 1..Len(cellCache) :
          /\ cellCache[i].key[1][2] <= 90 * 10^6
          /\ cellCache[i].key[2][2] <= 180 * 10^6

\* C6: when the primitive rejects the input of a miss, the call throws and
\* the cache is exactly as before, full or not.
C6_ThrowLeavesCache ==
    [][ResolveStep =>
          /\ (/\ ret'.key \notin Keys(cellCache)
              /\ \/ latLngToCellThrows(ret'.lat, ret'.lng, ret'.res)
                 \/ cellToBoundaryThrows(latLngToCell(ret'.lat, ret'.lng, ret'.res)))
                => ret'.threw
          /\ ret'.threw => cellCache' = cellCache
      ]_vars

\* the primitive rejected a miss on a full cache
C6_Witness ==
    /\ ret.op = "getH3CellInfo"
    /\ ret.threw
    /\ Len(cellCache) = MAX_CACHE_SIZE

\* C7: two calls with the same quantized coordinate and resolution return
\* identical records, whatever happened between them.
C7_SameKeySameRecord ==
    (ret.op = "getH3CellInfo" /\ ~ret.threw) =>
        \A a \in DOMAIN firstRet :
            cacheKeyOf(a[1], a[2], a[3]) = ret.key => ret.value = firstRet[a]

----------------------------------------------------------------------------
(* getH3CellsInBounds: one action per loop test / loop iteration *)

Min(a, b) == IF a < b THEN a ELSE b
Max(a, b) == IF a > b THEN a ELSE b

\* the step count without its lower limit
StepsNoFloor(res) == Min(50, 2^res)

\* line 139
Steps(res) == Min(50, Max(10, 2^res))

\* lines 140-141; the inputs of the model are chosen so that the division
\* is exact
HalfLatStep ==
    (bounds.north - bounds.south) \div (2 * Steps(resolution))
latStep ==
    (bounds.north - bounds.south) \div Steps(resolution)
lngStep ==
    (bounds.east - bounds.west) \div Steps(resolution)

\* line 150
AlwaysNew(seen, h3Index) ==
    TRUE
IsNew(seen, h3Index) ==
    h3Index \notin seen

\* lines 161-164: the catch block continues with the next sample
CatchAborts ==
    "done"
AfterCatch ==
    "inner"

\* lines 129-144: the call, up to the first test of the outer loop
StartScan(b, res) ==
    /\ pc = "idle"
    /\ pc' = "outer"
    /\ bounds' = b
    /\ resolution' = res
    /\ cells' = <<>>
    /\ seenCells' = {}
    /\ lat' = b.south
    /\ lng' = 0
    /\ visited' = {}
    /\ nCalls' = 0
    /\ firstSeen' = <<>>
    /\ idCalls' = <<>>
    /\ UNCHANGED <<enumRet, envVars, zoomVars, urlVars, cacheVars>>

\* a call from outside the layer
getH3CellsInBounds(b, res) ==
    /\ StartScan(b, res)
    /\ UNCHANGED appVars

\* line 144: the condition of the outer loop
LatNotAtEnd ==
    lat # bounds.north + latStep
LatInRange ==
    lat <= bounds.north

\* line 144: the test of the outer loop, and line 145's initialisation
OuterTest ==
    /\ pc = "outer"
    /\ IF LatInRange
       THEN pc' = "inner" /\ lng' = bounds.west
       ELSE pc' = "done" /\ lng' = lng
    /\ UNCHANGED <<bounds, resolution, lat, cells, seenCells, visited,
                   nCalls, firstSeen, idCalls, enumRet, envVars, zoomVars, urlVars, appVars, cacheVars>>

\* lines 146-160: a sample is resolved against the primitive; the Map of
\* getH3CellInfo is neither read nor written
SampleIsCached(cache, la, lo, res, info) ==
    IF Has(cache, cacheKeyOf(la, lo, res))
    THEN cache
    ELSE Store(cache, cacheKeyOf(la, lo, res), info)
CacheAfterSample(cache, la, lo, res, info) ==
    cache

\* line 155: cells.push
Unshift(list, info) ==
    <<info>> \o list
Push(list, info) ==
    Append(list, info)

Count(n) == IF n < CallCap THEN n + 1 ELSE n

Range(seq) == {seq[i] : i \in 1..Len(seq)}

\* lines 145-165: the test of the inner loop and one pass of its body, or
\* the end of the inner loop and line 144's increment
InnerStep ==
    /\ pc = "inner"
    /\ IF lng <= bounds.east
       THEN LET h3Index == latLngToCell(lat, lng, resolution)
            IN  /\ visited' = visited \cup {<<lat, lng>>}
                /\ nCalls' = Count(nCalls)
                /\ lat' = lat
                /\ IF latLngToCellThrows(lat, lng, resolution)
                   THEN /\ pc' = AfterCatch
                        /\ UNCHANGED <<cells, seenCells, firstSeen, idCalls,
                                       cellCache>>
                   ELSE /\ firstSeen' = IF h3Index \in Range(firstSeen)
                                        THEN firstSeen
                                        ELSE Append(firstSeen, h3Index)
                        /\ IF ~IsNew(seenCells, h3Index)
                           THEN /\ pc' = "inner"
                                /\ UNCHANGED <<cells, seenCells, idCalls,
                                               cellCache>>
                           ELSE IF cellToBoundaryThrows(h3Index)
                           THEN /\ pc' = AfterCatch
                                /\ seenCells' = seenCells \cup {h3Index}
                                /\ idCalls' = Append(idCalls,
                                                <<"cellToBoundary", h3Index>>)
                                /\ UNCHANGED <<cells, cellCache>>
                           ELSE /\ pc' = "inner"
                                /\ seenCells' = seenCells \cup {h3Index}
                                /\ idCalls' = idCalls \o
                                                << <<"cellToBoundary", h3Index>>,
                                                   <<"getResolution", h3Index>> >>
                                /\ cells' = Push(cells, H3CellInfo(h3Index))
                                /\ cellCache' =
                                      CacheAfterSample(cellCache, lat, lng,
                                          resolution, H3CellInfo(h3Index))
                /\ lng' = lng + lngStep
       ELSE /\ lat' = lat + latStep
            /\ pc' = "outer"
            /\ UNCHANGED <<lng, cells, seenCells, visited, nCalls, firstSeen,
                           idCalls, cellCache>>
    /\ UNCHANGED <<bounds, resolution, enumRet, envVars, zoomVars, urlVars, appVars, ret, bornAt, tick,
                   firstRet>>

\* line 168
ReturnScan ==
    /\ pc = "done"
    /\ enumRet' = [op |-> "getH3CellsInBounds", bounds |-> bounds,
                   resolution |-> resolution, cells |-> cells,
                   visited |-> visited, calls |-> nCalls,
                   cacheKeys |-> Keys(cellCache)]
    /\ pc' = "idle"
    /\ bounds' = NoBounds
    /\ resolution' = 0
    /\ lat' = 0
    /\ lng' = 0
    /\ cells' = <<>>
    /\ seenCells' = {}
    /\ visited' = {}
    /\ nCalls' = 0
    /\ firstSeen' = <<>>
    /\ idCalls' = <<>>
    /\ UNCHANGED <<envVars, zoomVars, urlVars, cacheVars>>

\* the return to a caller outside the layer
Return ==
    /\ ReturnScan
    /\ UNCHANGED appVars

ScanStep == OuterTest \/ InnerStep \/ Return

----------------------------------------------------------------------------
(* H3HexagonLayer, grid mode: updateGridCells *)

\* the clamp without its limit
NoClamp(res) == res

\* lines 171 and 192
MaxResolution(res) == Min(res, 8)

\* lines 172-185: the pivot, its parent and its child
Resolutions(res) ==
    LET maxResolution == MaxResolution(res)
    IN  <<maxResolution>>
        \o (IF maxResolution > 0 THEN <<maxResolution - 1>> ELSE <<>>)
        \o (IF maxResolution < 8 THEN <<maxResolution + 1>> ELSE <<>>)

\* a shared list: every bucket also holds the records of the buckets before
StoreAppended(out, res, list) ==
    LET before == IF DOMAIN out = {} THEN <<>>
                  ELSE out[CHOOSE k \in DOMAIN out : TRUE]
    IN  [k \in DOMAIN out \cup {res} |-> before \o list]

\* getMultiResolutionCells: the list of one resolution is stored under that
\* resolution
StoreBucket(out, res, list) ==
    [k \in DOMAIN out \cup {res} |-> IF k = res THEN list ELSE out[k]]

\* the first list single-resolution mode got for a box and a resolution
LogFirst(log, key, list) ==
    IF key \in DOMAIN log
    THEN log
    ELSE [k \in DOMAIN log \cup {key} |-> IF k = key THEN list ELSE log[k]]

\* lines 160-187 and 192: updateGridCells reads the bounds of the map and
\* derives the resolutions to enumerate from the zoom
updateGridCells(zoom, multi, b) ==
    LET res == getH3ResolutionForZoom(zoom)
        resolutions == IF multi THEN Resolutions(res)
                       ELSE <<MaxResolution(res)>>
    IN  /\ pc = "idle"
        /\ grid.phase = "idle"
        /\ grid' = [phase |-> "call", multi |-> multi, zoom |-> zoom,
                    bounds |-> b, requested |-> resolutions,
                    todo |-> resolutions, out |-> <<>>]
        /\ UNCHANGED <<gridCells, multiResCells, isVisible, scanLog>>
        /\ UNCHANGED <<envVars, cacheVars, scanVars, zoomVars, urlVars, mapVars>>

\* line 193, and each round of getMultiResolutionCells: getH3CellsInBounds is
\* called for the next resolution
GridCall ==
    /\ grid.phase = "call"
    /\ StartScan(grid.bounds, Head(grid.todo))
    /\ grid' = [grid EXCEPT !.phase = "scan"]
    /\ UNCHANGED mapVars
    /\ UNCHANGED <<gridCells, multiResCells, isVisible, scanLog>>

\* lines 193-197: the list of single-resolution mode is set
GridSingleReturn ==
    /\ grid.phase = "scan"
    /\ ~grid.multi
    /\ ReturnScan
    /\ grid' = [grid EXCEPT !.phase = "idle", !.todo = <<>>]
    /\ gridCells' = cells
    /\ multiResCells' = <<>>
    /\ isVisible' = TRUE
    /\ scanLog' = LogFirst(scanLog, <<bounds, resolution>>, cells)
    /\ UNCHANGED mapVars

\* getMultiResolutionCells stores the list and goes on to the next
\* resolution; after the last one lines 187-189 and 197 set the map
GridMultiReturn ==
    /\ grid.phase = "scan"
    /\ grid.multi
    /\ ReturnScan
    /\ LET out == StoreBucket(grid.out, resolution, cells)
           rest == Tail(grid.todo)
       IN  IF rest # <<>>
           THEN /\ grid' = [grid EXCEPT !.phase = "call", !.todo = rest,
                                        !.out = out]
                /\ UNCHANGED <<gridCells, multiResCells, isVisible>>
           ELSE /\ grid' = [grid EXCEPT !.phase = "idle", !.todo = rest,
                                        !.out = out]
                /\ multiResCells' = out
                /\ gridCells' = <<>>
                /\ isVisible' = TRUE
    /\ UNCHANGED <<scanLog, mapVars>>

----------------------------------------------------------------------------
(* Inputs and initial states of the sampler *)

\* half the side of the sampled box, in units: a multiple of every step
\* count used, and the box around 0 straddles four cells
Half == 8 * 10^6

\* a box, a box of zero height or width, and an inverted box, per axis
Spans == {<<-Half, Half>>, <<0, 0>>, <<Half, -Half>>}

BoundsInputs ==
    {[south |-> sn[1], north |-> sn[2], west |-> we[1], east |-> we[2]] :
        sn \in Spans, we \in Spans}

\* step counts 10 and 16
ScanRes == {3, 4}

\* the first, the middle and the last sample point of the box
ScanRejectPts == {<<-Half, -Half>>, <<0, 0>>, <<Half, Half>>}
ScanRejectIds == {<<4, 0, 0>>}

InitEnum ==
    /\ cellCache = <<>>
    /\ tick = 0
    /\ bornAt = <<>>
    /\ firstRet = <<>>
    /\ ret = [op |-> "none"]
    /\ rejectPts \in SUBSET ScanRejectPts
    /\ rejectIds \in SUBSET ScanRejectIds
    /\ ScanIdle
    /\ ZoomIdle
    /\ UrlIdle
    /\ AppIdle

NextEnum ==
    \/ \E b \in BoundsInputs, res \in ScanRes : getH3CellsInBounds(b, res)
    \/ OuterTest
    \/ InnerStep
    \/ Return

SpecEnum == InitEnum /\ [][NextEnum]_vars

\* a call that has started keeps running: the function is synchronous
FairSpecEnum == SpecEnum /\ WF_vars(ScanStep)

----------------------------------------------------------------------------
(* Properties of the sampler *)

\* C8: a call with north >= south returns, boxes of zero height or zero
\* width included.
C8_EnumerationTerminates ==
    (pc # "idle" /\ bounds.north >= bounds.south) ~> (pc = "idle")

Ids(list) == {list[i].h3Index : i \in 1..Len(list)}

NoDuplicates(list) ==
    \A i, j \in 1..Len(list) : i # j => list[i].h3Index # list[j].h3Index

\* C9: the list under construction and the list returned never hold two
\* records with the same identifier.
C9_NoDuplicateIds ==
    /\ NoDuplicates(cells)
    /\ enumRet.op = "getH3CellsInBounds" => NoDuplicates(enumRet.cells)

\* a returned list of several cells, each sampled more than once, with
\* some sample rejected
C9_Witness ==
    /\ enumRet.op = "getH3CellsInBounds"
    /\ Len(enumRet.cells) >= 2
    /\ Cardinality(enumRet.visited) > 2 * Len(enumRet.cells)
    /\ rejectPts \cap enumRet.visited # {}

\* the sample points of a box: south..north and west..east inclusive, in
\* Steps(res) equal steps each
Walk(from, to, res) ==
    IF from > to
    THEN {}
    ELSE {from + i * ((to - from) \div Steps(res)) : i \in 0..Steps(res)}

Grid(b, res) == Walk(b.south, b.north, res) \X Walk(b.west, b.east, res)

\* the primitive yields a record for the point
Accepted(p, res) ==
    /\ ~latLngToCellThrows(p[1], p[2], res)
    /\ ~cellToBoundaryThrows(latLngToCell(p[1], p[2], res))

\* C10: when the scan is over, it has reached every sample point of the
\* box, rejected ones or not, and the list holds exactly the cells of the
\* sample points the primitive accepted.
C10_RejectedSamplesSkipped ==
    pc = "done" =>
        /\ visited = Grid(bounds, resolution)
        /\ Ids(cells) = {latLngToCell(p[1], p[2], resolution) :
                            p \in {q \in Grid(bounds, resolution) :
                                      Accepted(q, resolution)}}

\* a scan that met a rejected sample point went on to the last sample
\* point and returns cells
C10_Witness ==
    /\ pc = "done"
    /\ rejectPts \cap visited # {}
    /\ <<bounds.north, bounds.east>> \in visited
    /\ cells # <<>>

HasRecord(h3Index) == ~cellToBoundaryThrows(h3Index)

IdsInOrder(list) == [i \in 1..Len(list) |-> list[i].h3Index]

\* C12: the list holds the identifiers in the order in which the scan
\* first produced them (those without a boundary left out), and
\* cellToBoundary and getResolution are called at most once per
\* identifier, and once each for every identifier of the list.
C12_FirstSampleWinsOnce ==
    /\ IdsInOrder(cells) = SelectSeq(firstSeen, HasRecord)
    /\ \A i, j \in 1..Len(idCalls) : i # j => idCalls[i] # idCalls[j]
    /\ \A c \in Range(idCalls) : c[2] \in Range(firstSeen)
    /\ \A h \in Ids(cells) :
          <<"cellToBoundary", h>> \in Range(idCalls)
          /\ <<"getResolution", h>> \in Range(idCalls)

\* a finished scan of four cells, most samples falling in a cell already seen
C12_Witness ==
    /\ pc = "done"
    /\ Len(cells) = 4
    /\ Len(idCalls) = 8
    /\ nCalls > 100

\* C13: a call with north < south returns, with an empty list and without
\* a single latLngToCell call, whatever east, west and the resolution are.
C13_InvertedBoxEmpty ==
    /\ []((enumRet.op = "getH3CellsInBounds"
            /\ enumRet.bounds.north < enumRet.bounds.south)
          => (enumRet.cells = <<>> /\ enumRet.calls = 0))
    /\ ((pc # "idle" /\ bounds.north < bounds.south) ~> (pc = "idle"))

\* a call with north < south and west < east has returned
C13_Witness ==
    /\ enumRet.op = "getH3CellsInBounds"
    /\ enumRet.bounds.north < enumRet.bounds.south
    /\ enumRet.bounds.west < enumRet.bounds.east

----------------------------------------------------------------------------
(* The cache and the sampler together. Both functions are synchronous, so  *)
(* a call of getH3CellInfo or clearH3Cache happens between two scans.      *)

\* points of the sampled box, at the resolution of the scan
JointPts == {<<0, 0>>, <<-Half, -Half>>}
JointRes == {3}
JointBounds == {[south |-> -Half, north |-> Half, west |-> -Half, east |-> Half]}

Init ==
    /\ cellCache = <<>>
    /\ tick = 0
    /\ bornAt = <<>>
    /\ firstRet = <<>>
    /\ ret = [op |-> "none"]
    /\ rejectPts \in SUBSET {<<0, 0>>}
    /\ rejectIds = {}
    /\ ScanIdle
    /\ ZoomIdle
    /\ UrlIdle
    /\ AppIdle

Next ==
    \/ /\ pc = "idle"
       /\ \E p \in JointPts, res \in JointRes : getH3CellInfo(p[1], p[2], res)
    \/ /\ pc = "idle"
       /\ clearH3Cache
    \/ \E b \in JointBounds, res \in JointRes : getH3CellsInBounds(b, res)
    \/ OuterTest
    \/ InnerStep
    \/ Return

Spec == Init /\ [][Next]_vars

\* C14: no step of a scan changes the Map, contents or order, and a key
\* that getH3CellInfo has not inserted since the last reset misses, also
\* when a scan has enumerated its cell.
C14_ScanLeavesCache ==
    /\ [][scanVars' # scanVars => cellCache' = cellCache]_vars
    /\ [][(ResolveStep /\ ret'.key \notin DOMAIN bornAt) =>
            (~ret'.hit /\ ret'.prim # <<>>)]_vars

\* after a scan returned the cell of a point, getH3CellInfo of that point
\* missed and stored it
C14_Witness ==
    /\ enumRet.op = "getH3CellsInBounds"
    /\ ret.op = "getH3CellInfo"
    /\ ~ret.hit
    /\ ~ret.threw
    /\ ret.value.h3Index \in Ids(enumRet.cells)
    /\ ret.key \notin enumRet.cacheKeys
    /\ ret.key \in Keys(cellCache)

----------------------------------------------------------------------------
(* Reset of the cache *)

\* C15: after clearH3Cache the cache is empty, the next getH3CellInfo is a
\* miss that calls the primitive, and it returns the record that the same
\* arguments returned before the reset.
C15_ResetKeepsRecords ==
    /\ [](ret.op = "clearH3Cache" => cellCache = <<>>)
    /\ [][(ResolveStep /\ ret.op = "clearH3Cache") =>
            /\ ~ret'.hit
            /\ ret'.prim # <<>>
            /\ (~ret'.threw /\ <<ret'.lat, ret'.lng, ret'.res>> \in DOMAIN firstRet)
                  => ret'.value = firstRet[<<ret'.lat, ret'.lng, ret'.res>>]
         ]_vars

----------------------------------------------------------------------------
(* Ownership of the cached records *)

\* getH3CellInfo returns the object that is stored in cellCache (the object
\* of cellCache.get on a hit, the object passed to cellCache.set on a miss),
\* so the caller of the last call holds a reference to the entry of ret.key.
\* The caller empties the boundary array of the record it received.
CallerMutates ==
    /\ ret.op = "getH3CellInfo"
    /\ ~ret.threw
    /\ Has(cellCache, ret.key)
    /\ Value(cellCache, ret.key).boundary # <<>>
    /\ cellCache' = [cellCache EXCEPT ![Get(cellCache, ret.key)].value.boundary = <<>>]
    /\ UNCHANGED <<envVars, zoomVars, urlVars, appVars, scanVars, ret, bornAt, tick, firstRet>>

AliasLats == {407127999, 407128000, 407128400, 10}

InitAlias ==
    /\ cellCache = <<>>
    /\ tick = 0
    /\ bornAt = <<>>
    /\ firstRet = <<>>
    /\ rejectPts \in SUBSET {<<407128400, LngNYC>>}
    /\ rejectIds = {}
    /\ ret = [op |-> "none"]
    /\ ScanIdle
    /\ ZoomIdle
    /\ UrlIdle
    /\ AppIdle

NextAlias ==
    \/ \E la \in AliasLats, lo \in ResolveLngs, res \in ResolveRes :
          getH3CellInfo(la, lo, res)
    \/ clearH3Cache
    \/ CallerMutates

SpecAlias == InitAlias /\ [][NextAlias]_vars

\* C16: an entry that stays in the cache keeps its record, whatever the
\* caller does with the record it was handed, and a hit returns the record
\* as the primitive built it.
C16_EntriesNeverMutated ==
    /\ [][\A k \in Keys(cellCache) \cap Keys(cellCache') :
            bornAt'[k] = bornAt[k] => Value(cellCache', k) = Value(cellCache, k)]_vars
    /\ []((ret.op = "getH3CellInfo" /\ ret.hit) =>
            ret.value = H3CellInfo(ret.value.h3Index))

----------------------------------------------------------------------------
(* The zoom mapper *)

ZMax == 25

ZoomInputs == (-ZMax)..ZMax

InitZoom ==
    /\ cellCache = <<>>
    /\ tick = 0
    /\ bornAt = <<>>
    /\ firstRet = <<>>
    /\ rejectPts = {}
    /\ rejectIds = {}
    /\ ret = [op |-> "none"]
    /\ ScanIdle
    /\ ZoomIdle
    /\ UrlIdle
    /\ AppIdle

NextZoom == \E zoom \in ZoomInputs : ZoomCall(zoom)

SpecZoom == InitZoom /\ [][NextZoom]_vars

IsZoomCall(r) == r.op = "getH3ResolutionForZoom"

\* C17: the result is in 0..15 for every integer zoom, and of two calls the
\* one with the smaller zoom never has the larger result.
C17_MonotoneInRange ==
    IsZoomCall(zoomRet) =>
        /\ zoomRet.resolution \in 0..15
        /\ (IsZoomCall(zoomPrev) /\ zoomPrev.zoom <= zoomRet.zoom)
              => zoomPrev.resolution <= zoomRet.resolution
        /\ (IsZoomCall(zoomPrev) /\ zoomRet.zoom <= zoomPrev.zoom)
              => zoomRet.resolution <= zoomPrev.resolution

C17_Witness ==
    /\ IsZoomCall(zoomPrev) /\ IsZoomCall(zoomRet)
    /\ zoomPrev.zoom < 0
    /\ zoomRet.zoom > 20
    /\ zoomPrev.resolution < zoomRet.resolution

\* the first and the last threshold of the chain of tests
LowestThreshold == ZoomTable[1][1]
HighestThreshold == ZoomTable[Len(ZoomTable)][1]

\* C18: a zoom at or below the lowest threshold gives 0 and a zoom at or
\* above the highest threshold gives 15.
C18_ClampsAtThresholds ==
    IsZoomCall(zoomRet) =>
        /\ zoomRet.zoom <= LowestThreshold => zoomRet.resolution = 0
        /\ zoomRet.zoom >= HighestThreshold => zoomRet.resolution = 15

\* C18, amended: a zoom at or below the lowest threshold gives 0, a zoom
\* above the highest threshold gives 15, and the highest threshold itself
\* gives 14.
C18_ClampsOutsideThresholds ==
    IsZoomCall(zoomRet) =>
        /\ zoomRet.zoom <= LowestThreshold => zoomRet.resolution = 0
        /\ zoomRet.zoom > HighestThreshold => zoomRet.resolution = 15
        /\ zoomRet.zoom = HighestThreshold => zoomRet.resolution = 14

C18_Witness ==
    /\ IsZoomCall(zoomPrev) /\ IsZoomCall(zoomRet)
    /\ zoomPrev.zoom = LowestThreshold /\ zoomPrev.resolution = 0
    /\ zoomRet.zoom = HighestThreshold + 1 /\ zoomRet.resolution = 15

\* the table of README.md, rows "0-2" to "17": the resolution of zoom z is
\* ReadmeTable[z + 1]; the last row is "18+"
ReadmeTable == <<0, 0, 0, 1, 1, 2, 3, 4, 5, 6, 7, 8, 9, 10, 11, 12, 13, 14>>

\* C19: for every zoom from 0 the result is the one of the documented
\* table, 15 for 18 and above.
C19_MatchesReadmeTable ==
    IsZoomCall(zoomRet) =>
        /\ zoomRet.zoom \in 0..17 => zoomRet.resolution = ReadmeTable[zoomRet.zoom + 1]
        /\ zoomRet.zoom >= 18 => zoomRet.resolution = 15

C19_Witness ==
    /\ IsZoomCall(zoomPrev) /\ IsZoomCall(zoomRet)
    /\ zoomPrev.zoom = 13 /\ zoomPrev.resolution = 10
    /\ zoomRet.zoom = 18 /\ zoomRet.resolution = 15

----------------------------------------------------------------------------
(* The step count of the sampler *)

StepRes == 0..15

StepBounds == {[south |-> -Half, north |-> Half, west |-> -Half, east |-> Half]}

InitSteps ==
    /\ cellCache = <<>>
    /\ tick = 0
    /\ bornAt = <<>>
    /\ firstRet = <<>>
    /\ ret = [op |-> "none"]
    /\ rejectPts = {}
    /\ rejectIds = {}
    /\ ScanIdle
    /\ ZoomIdle
    /\ UrlIdle
    /\ AppIdle

\* one call of getH3CellsInBounds per run, at any resolution
NextSteps ==
    \/ /\ enumRet.op = "none"
       /\ \E b \in StepBounds, res \in StepRes : getH3CellsInBounds(b, res)
    \/ OuterTest
    \/ InnerStep
    \/ Return

SpecSteps == InitSteps /\ [][NextSteps]_vars

\* the step counts the specification lists, for resolutions 0..15
StepTable == <<10, 10, 10, 10, 16, 32, 50, 50, 50, 50, 50, 50, 50, 50, 50, 50>>

SampledLats(pts) == {p[1] : p \in pts}
SampledLngs(pts) == {p[2] : p \in pts}

\* C20: a scan at resolution r divides each side of the box into
\* StepTable[r + 1] steps, which is clamp(2^r, 10, 50): it samples that many
\* latitudes and longitudes plus one, a step apart; and a scan at a
\* resolution above 8 runs and returns as any other.
C20_StepCountTable ==
    /\ \A r \in StepRes : StepTable[r + 1] = Min(50, Max(10, 2^r))
    /\ pc # "idle" =>
          /\ latStep * StepTable[resolution + 1] = bounds.north - bounds.south
          /\ lngStep * StepTable[resolution + 1] = bounds.east - bounds.west
    /\ enumRet.op = "getH3CellsInBounds" =>
          /\ Cardinality(SampledLats(enumRet.visited)) = StepTable[enumRet.resolution + 1] + 1
          /\ Cardinality(SampledLngs(enumRet.visited)) = StepTable[enumRet.resolution + 1] + 1
          /\ Cardinality(enumRet.visited) = (StepTable[enumRet.resolution + 1] + 1)^2
          /\ enumRet.cells # <<>>

\* a scan at resolution 9 that has sampled its first row of 51 points
C20_Witness ==
    /\ pc = "inner"
    /\ resolution = 9
    /\ SampledLats(visited) = {bounds.south}
    /\ Cardinality(SampledLngs(visited)) = 51
    /\ Len(cells) = 51

----------------------------------------------------------------------------
(* Quantization of the key, and the seen set of the sampler *)

\* C26: a call that returns a record returns the cell the primitive yields
\* for exactly its own lat, lng and resolution, hit or miss.
C26_ReturnsOwnCell ==
    (ret.op = "getH3CellInfo" /\ ~ret.threw) =>
        ret.value = H3CellInfo(latLngToCell(ret.lat, ret.lng, ret.res))

\* C27: every identifier of the seen set has a record in the list, at each
\* point of the scan and when it returns.
C27_SeenHaveRecords ==
    pc \in {"outer", "inner", "done"} => seenCells \subseteq Ids(cells)

----------------------------------------------------------------------------
(* The layer in grid mode *)

\* zooms whose resolutions are 1, 2 and 3
GridZooms == {4, 5, 6}

GridBounds == {[south |-> -Half, north |-> Half, west |-> -Half, east |-> Half]}

InitGrid ==
    /\ cellCache = <<>>
    /\ tick = 0
    /\ bornAt = <<>>
    /\ firstRet = <<>>
    /\ ret = [op |-> "none"]
    /\ rejectPts \in SUBSET {<<0, 0>>}
    /\ rejectIds = {}
    /\ ScanIdle
    /\ ZoomIdle
    /\ UrlIdle
    /\ AppIdle

NextGrid ==
    \/ \E zoom \in GridZooms, multi \in BOOLEAN, b \in GridBounds :
          updateGridCells(zoom, multi, b)
    \/ GridCall
    \/ OuterTest
    \/ InnerStep
    \/ GridSingleReturn
    \/ GridMultiReturn

SpecGrid == InitGrid /\ [][NextGrid]_vars

\* the last call of updateGridCells was one of multi-resolution mode, and
\* it is over
MultiDone == grid.phase = "idle" /\ grid.multi /\ grid.requested # <<>>

\* C21: the map has one key per requested resolution, and the list under a
\* resolution is the list that single-resolution mode gets for the same
\* box at that resolution, whichever other resolutions were asked with it
\* and in whichever order.
C21_BucketsAreSingleScans ==
    MultiDone =>
        /\ DOMAIN multiResCells = Range(grid.requested)
        /\ \A r \in DOMAIN multiResCells :
              <<grid.bounds, r>> \in DOMAIN scanLog
                 => multiResCells[r] = scanLog[<<grid.bounds, r>>]

C21_Witness ==
    /\ MultiDone
    /\ grid.requested = <<2, 1, 3>>
    /\ \A r \in {1, 2, 3} :
          /\ <<grid.bounds, r>> \in DOMAIN scanLog
          /\ multiResCells[r] # <<>>
          /\ multiResCells[r] = scanLog[<<grid.bounds, r>>]
    /\ multiResCells[1] # multiResCells[2]

----------------------------------------------------------------------------
(* The resolutions the layer asks for *)

GridZMax == 19

\* a viewport of 0.00008 degrees around the point 0, 0
SmallBounds == {[south |-> -400, north |-> 400, west |-> -400, east |-> 400]}

\* one call of updateGridCells per run, at any zoom
NextGridZoom ==
    \/ /\ grid.requested = <<>>
       /\ \E zoom \in (-1)..GridZMax, multi \in BOOLEAN, b \in SmallBounds :
             updateGridCells(zoom, multi, b)
    \/ GridCall
    \/ OuterTest
    \/ InnerStep
    \/ GridSingleReturn
    \/ GridMultiReturn

SpecGridZoom == InitGrid /\ [][NextGridZoom]_vars

\* C22: every enumeration the layer asks for is at a resolution 0..8:
\* p = min(resolution of the zoom, 8) in single-resolution mode, and the
\* distinct values p, p - 1 when p > 0, p + 1 when p < 8 otherwise.
C22_GridRequestsClamped ==
    /\ pc # "idle" => resolution \in 0..8
    /\ grid.requested # <<>> =>
          LET p == Min(getH3ResolutionForZoom(grid.zoom), 8)
          IN  /\ Range(grid.requested) \subseteq 0..8
              /\ Cardinality(Range(grid.requested)) = Len(grid.requested)
              /\ Range(grid.requested) =
                    IF grid.multi
                    THEN {p} \cup (IF p > 0 THEN {p - 1} ELSE {})
                             \cup (IF p < 8 THEN {p + 1} ELSE {})
                    ELSE {p}

C22_Witness ==
    /\ grid.multi
    /\ grid.zoom = 18
    /\ grid.requested = <<8, 7>>
    /\ pc = "inner"
    /\ resolution = 7

----------------------------------------------------------------------------
(* MapContainer: cursor tracking, useDebounce and the effects behind it *)

otherGridVars == <<grid, gridCells, multiResCells, scanLog>>
touchVars == <<touchEndTimeout, touching, sinceTouch>>

\* lines 166-172: a pair with a 0 in it is taken for no pair at all
NewCursorPos(latlng, id) ==
    IF latlng # Null /\ latlng.lat # 0 /\ latlng.lng # 0
    THEN [lat |-> latlng.lat, lng |-> latlng.lng, id |-> id]
    ELSE Null

\* the effect without its cleanup: the timer of the value before stays
KeepsOldTimer(ts, value) ==
    ts \cup {Timer(0, "debounce", DebounceDelay, value)}

\* use-url-state.ts lines 118-129: the cleanup clears the timer of the
\* value before, the effect starts the timer of the new value
Debounced(ts, value) ==
    {t \in ts : t.kind # "debounce"}
       \cup {Timer(0, "debounce", DebounceDelay, value)}

\* setCursorPos and the render after it; ts are the timers pending then.
\* A state that is set to itself (null to null) renders nothing.
SetCursorPos(new, ts) ==
    IF new = cursorPos
    THEN /\ timers' = ts
         /\ UNCHANGED <<cursorPos, stableFor>>
    ELSE /\ cursorPos' = new
         /\ timers' = Debounced(ts, new)
         /\ stableFor' = 0

\* lines 166-172
handleCursorMove(latlng, ts) ==
    /\ lastMove' = latlng
    /\ SetCursorPos(NewCursorPos(latlng, nextId + 1), ts)
    /\ nextId' = IF NewCursorPos(latlng, nextId + 1) # Null
                 THEN nextId + 1 ELSE nextId

\* lines 84-88
mousemove(la, lo) ==
    /\ ~isTouchDevice
    /\ handleCursorMove([lat |-> la, lng |-> lo], timers)
    /\ UNCHANGED <<mapZoom, debouncedCursorPos, cellInfo, showCellInfo,
                   isTouchDevice, layerCellInfo, frames, touchVars>>
    /\ UNCHANGED <<envVars, cacheVars, scanVars, zoomVars, urlVars, gridVars>>

\* lines 89-94
mouseout ==
    /\ ~isTouchDevice
    /\ handleCursorMove(Null, timers)
    /\ UNCHANGED <<mapZoom, debouncedCursorPos, cellInfo, showCellInfo,
                   isTouchDevice, layerCellInfo, frames, touchVars>>
    /\ UNCHANGED <<envVars, cacheVars, scanVars, zoomVars, urlVars, gridVars>>

\* lines 103-114
handleTouchMove(la, lo) ==
    /\ isTouchDevice
    /\ touchEndTimeout' = 0
    /\ handleCursorMove([lat |-> la, lng |-> lo],
                        IF touchEndTimeout # 0
                        THEN {t \in timers : t.id # touchEndTimeout}
                        ELSE timers)
    /\ touching' = TRUE
    /\ sinceTouch' = 0
    /\ UNCHANGED <<mapZoom, debouncedCursorPos, cellInfo, showCellInfo,
                   isTouchDevice, layerCellInfo, frames>>
    /\ UNCHANGED <<envVars, cacheVars, scanVars, zoomVars, urlVars, gridVars>>

\* lines 117-123
handleTouchEnd ==
    /\ isTouchDevice
    /\ timers' = timers \cup {Timer(nextId + 1, "touch", TouchEndDelay, Null)}
    /\ touchEndTimeout' = nextId + 1
    /\ nextId' = nextId + 1
    /\ touching' = FALSE
    /\ sinceTouch' = 0
    /\ UNCHANGED <<mapZoom, cursorPos, debouncedCursorPos, cellInfo,
                   showCellInfo, isTouchDevice, layerCellInfo, frames,
                   stableFor>>
    /\ UNCHANGED <<envVars, cacheVars, scanVars, zoomVars, urlVars, gridVars>>
    /\ UNCHANGED lastMove

\* lines 119-121: the callback of a touch-end timer
TouchEndFire ==
    \E t \in timers :
       /\ t.kind = "touch"
       /\ t.left = 0
       /\ handleCursorMove(Null, timers \ {t})
       /\ UNCHANGED <<mapZoom, debouncedCursorPos, cellInfo, showCellInfo,
                      isTouchDevice, layerCellInfo, frames, touchVars>>
       /\ UNCHANGED <<envVars, cacheVars, scanVars, zoomVars, urlVars, gridVars>>

\* H3HexagonLayer.tsx line 136: the cleanup of the effect's run before
Unfaded(ts) == {t \in ts : t.kind # "fade"}

\* the fields MapContainer copies (lines 183-187)
InfoOf(info) ==
    [h3Index |-> info.h3Index, resolution |-> info.resolution,
     boundary |-> info.boundary]

\* H3HexagonLayer.tsx lines 129-150, the effect of the layer for the cursor
\* position pos and the zoom z; ts are the timers pending then. With a
\* position its getH3CellInfo call is the one of MapContainer's effect.
LayerEffect(pos, z, ts) ==
    IF pos = Null
    THEN /\ isVisible' = FALSE
         /\ timers' = Unfaded(ts) \cup {Timer(0, "fade", FadeDelay, Null)}
         /\ UNCHANGED <<layerCellInfo, frames>>
    ELSE /\ timers' = Unfaded(ts)
         /\ IF ret'.threw
            THEN UNCHANGED <<layerCellInfo, frames>>
            ELSE /\ layerCellInfo' = ret'.value
                 /\ frames' = frames + 1
         /\ UNCHANGED isVisible

\* MapContainer.tsx lines 175-188, the effect of the container
ContainerEffect(pos, z) ==
    IF pos = Null
    THEN /\ cellInfo' = Null
         /\ UNCHANGED <<envVars, cacheVars, scanVars, zoomVars>>
    ELSE /\ Resolve(pos.lat, pos.lng, getH3ResolutionForZoom(z))
         /\ cellInfo' = IF ret'.threw THEN cellInfo ELSE InfoOf(ret'.value)

\* use-url-state.ts lines 120-122: the callback of useDebounce's timer,
\* and the render and the effects that follow a new debounced value
DebounceFire ==
    \E t \in timers :
       /\ t.kind = "debounce"
       /\ t.left = 0
       /\ IF t.value = debouncedCursorPos
          THEN /\ timers' = timers \ {t}
               /\ UNCHANGED <<debouncedCursorPos, cellInfo, layerCellInfo,
                              frames, isVisible>>
               /\ UNCHANGED <<envVars, cacheVars, scanVars, zoomVars, urlVars>>
          ELSE /\ debouncedCursorPos' = t.value
               /\ ContainerEffect(t.value, mapZoom)
               /\ LayerEffect(t.value, mapZoom, timers \ {t})
               /\ UNCHANGED urlVars
       /\ UNCHANGED <<mapZoom, cursorPos, showCellInfo, isTouchDevice,
                      nextId, stableFor, touchVars, otherGridVars>>
       /\ UNCHANGED lastMove

\* H3HexagonLayer.tsx lines 147-149: a requestAnimationFrame callback
FrameFire ==
    /\ frames > 0
    /\ frames' = frames - 1
    /\ isVisible' = TRUE
    /\ UNCHANGED <<mapZoom, cursorPos, debouncedCursorPos, cellInfo,
                   showCellInfo, isTouchDevice, layerCellInfo, timers,
                   nextId, stableFor, touchVars, otherGridVars>>
    /\ UNCHANGED <<envVars, cacheVars, scanVars, zoomVars, urlVars>>
    /\ UNCHANGED lastMove

\* H3HexagonLayer.tsx line 135: the callback of the timer of the fade
FadeFire ==
    \E t \in timers :
       /\ t.kind = "fade"
       /\ t.left = 0
       /\ timers' = timers \ {t}
       /\ layerCellInfo' = Null
       /\ UNCHANGED <<mapZoom, cursorPos, debouncedCursorPos, cellInfo,
                      showCellInfo, isTouchDevice, frames, nextId,
                      stableFor, touchVars, gridVars>>
       /\ UNCHANGED <<envVars, cacheVars, scanVars, zoomVars, urlVars>>
       /\ UNCHANGED lastMove

\* MapContainer.tsx lines 32-37 with setZoom and handleMapMove, and the
\* effects that depend on the zoom (the container's) and on its resolution
\* (the layer's); the zoom keeps the centre the map was opened with
zoomend(z) ==
    /\ z # mapZoom
    /\ mapZoom' = z
    /\ WriteUrl([lat |-> urlState.lat, lng |-> urlState.lng, zoom |-> z])
    /\ ContainerEffect(debouncedCursorPos, z)
    /\ IF getH3ResolutionForZoom(z) # getH3ResolutionForZoom(mapZoom)
       THEN LayerEffect(debouncedCursorPos, z, timers)
       ELSE UNCHANGED <<layerCellInfo, frames, isVisible, timers>>
    /\ UNCHANGED <<cursorPos, debouncedCursorPos, showCellInfo,
                   isTouchDevice, nextId, stableFor, touchVars,
                   otherGridVars>>
    /\ UNCHANGED lastMove

\* MapContainer.tsx lines 212-214
handleToggleInfo ==
    /\ showCellInfo' = ~showCellInfo
    /\ UNCHANGED <<mapZoom, cursorPos, debouncedCursorPos, cellInfo,
                   isTouchDevice, layerCellInfo, timers, frames, nextId,
                   stableFor, touchVars, gridVars>>
    /\ UNCHANGED <<envVars, cacheVars, scanVars, zoomVars, urlVars>>
    /\ UNCHANGED lastMove

\* d milliseconds pass; a timer that is due fires before more time passes
Advance(d) ==
    /\ \A t \in timers : t.left >= d
    /\ timers' = {Timer(t.id, t.kind, t.left - d, t.value) : t \in timers}
    /\ stableFor' = Min(stableFor + d, DebounceDelay)
    /\ sinceTouch' = Min(sinceTouch + d, TouchEndDelay)
    /\ UNCHANGED <<mapZoom, cursorPos, debouncedCursorPos, cellInfo,
                   showCellInfo, isTouchDevice, touchEndTimeout,
                   layerCellInfo, frames, nextId, touching, gridVars>>
    /\ UNCHANGED <<envVars, cacheVars, scanVars, zoomVars, urlVars>>
    /\ UNCHANGED lastMove

----------------------------------------------------------------------------
(* The cursor on a desktop *)

MaxEvents == 3
MaxFrames == 2

\* the point 0, 0, a point on the equator, one on the prime meridian, and
\* New York
CursorLats == {0, 407128000}
CursorLngs == {0, LngNYC}

\* zooms of the resolutions 0 and 7
CursorZooms == {2, 10}

\* the time between two events
Quantum == DebounceDelay

InitCursor ==
    /\ cellCache = <<>>
    /\ tick = 0
    /\ bornAt = <<>>
    /\ firstRet = <<>>
    /\ ret = [op |-> "none"]
    /\ rejectPts = {}
    /\ rejectIds = {}
    /\ ScanIdle
    /\ ZoomIdle
    /\ UrlIdle
    /\ GridIdle
    /\ MapIdle
    /\ mapZoom \in CursorZooms
    /\ isTouchDevice = FALSE

NextCursor ==
    \/ /\ nextId < MaxEvents
       /\ \E la \in CursorLats, lo \in CursorLngs : mousemove(la, lo)
    \/ mouseout
    \/ DebounceFire
    \/ FrameFire
    \/ FadeFire
    \/ /\ frames < MaxFrames
       /\ \E z \in CursorZooms : zoomend(z)
    \/ handleToggleInfo
    \/ Advance(Quantum)

SpecCursor == InitCursor /\ [][NextCursor]_vars

\* C28: the cursor position is the pair that handleCursorMove was last
\* called with, a 0 in it or not, and it is null only after a call with
\* null.
C28_CursorIsLastMove ==
    IF lastMove = Null
    THEN cursorPos = Null
    ELSE /\ cursorPos # Null
         /\ cursorPos.lat = lastMove.lat
         /\ cursorPos.lng = lastMove.lng

----------------------------------------------------------------------------
(* useDebounce *)

ShortQuantum == DebounceDelay \div 2

InitDebounce ==
    /\ cellCache = <<>>
    /\ tick = 0
    /\ bornAt = <<>>
    /\ firstRet = <<>>
    /\ ret = [op |-> "none"]
    /\ rejectPts = {}
    /\ rejectIds = {}
    /\ ScanIdle
    /\ ZoomIdle
    /\ UrlIdle
    /\ GridIdle
    /\ MapIdle
    /\ mapZoom = 10
    /\ isTouchDevice = FALSE

NextDebounce ==
    \/ /\ nextId < MaxEvents
       /\ \E la \in {407128000, 407128400} : mousemove(la, LngNYC)
    \/ mouseout
    \/ DebounceFire
    \/ FrameFire
    \/ FadeFire
    \/ Advance(ShortQuantum)

SpecDebounce == InitDebounce /\ [][NextDebounce]_vars

DebounceTimers == {t \in timers : t.kind = "debounce"}

\* C23: the debounced value changes only to the input value of the moment,
\* and only when that has been the input for the whole delay; at most one
\* timer is pending, and it is the timer of the input value of the moment
\* (the timer of a value that was replaced is gone).
C23_DebounceFollowsInput ==
    /\ [](Cardinality(DebounceTimers) <= 1)
    /\ [](\A t \in DebounceTimers :
             t.value = cursorPos /\ t.left = DebounceDelay - stableFor)
    /\ [][debouncedCursorPos' # debouncedCursorPos =>
             /\ debouncedCursorPos' = cursorPos
             /\ cursorPos' = cursorPos
             /\ stableFor = DebounceDelay]_vars

\* the second object is emitted, 100 ms after it replaced the first
C23_Witness ==
    /\ debouncedCursorPos # Null
    /\ debouncedCursorPos.id = 2
    /\ cursorPos = debouncedCursorPos
    /\ stableFor = DebounceDelay
    /\ DebounceTimers = {}

----------------------------------------------------------------------------
(* The cursor on a touch device *)

InitTouch ==
    /\ cellCache = <<>>
    /\ tick = 0
    /\ bornAt = <<>>
    /\ firstRet = <<>>
    /\ ret = [op |-> "none"]
    /\ rejectPts = {}
    /\ rejectIds = {}
    /\ ScanIdle
    /\ ZoomIdle
    /\ UrlIdle
    /\ GridIdle
    /\ MapIdle
    /\ mapZoom = 10
    /\ isTouchDevice = TRUE

NextTouch ==
    \/ /\ nextId < MaxEvents
       /\ handleTouchMove(407128000, LngNYC)
    \/ /\ nextId < MaxEvents
       /\ handleTouchEnd
    \/ TouchEndFire
    \/ DebounceFire
    \/ FrameFire
    \/ FadeFire
    \/ Advance(Quantum)

SpecTouch == InitTouch /\ [][NextTouch]_vars

TouchTimers == {t \in timers : t.kind = "touch"}

\* a touch-end timer fires: it goes and handleCursorMove is called with null
TouchClearStep ==
    /\ TouchTimers' # TouchTimers
    /\ TouchTimers' \subseteq TouchTimers
    /\ lastMove' = Null

----------------------------------------------------------------------------
(* The cell-info panel *)

\* MapContainer.tsx lines 281-282: the props h3Index and resolution are
\* cellInfo?.h3Index || null and cellInfo?.resolution || null; an h3Index is
\* a string that is not empty, and the number 0 is falsy
H3IndexPropIsNull == cellInfo = Null
ResolutionPropIsNull == cellInfo = Null \/ cellInfo.resolution = 0

\* MapContainer.tsx line 279 and CellInfoDisplay.tsx line 201: the panel
\* is rendered with an index and a resolution
PanelRendered ==
    /\ showCellInfo
    /\ ~(H3IndexPropIsNull \/ ResolutionPropIsNull)

InitPanel ==
    /\ cellCache = <<>>
    /\ tick = 0
    /\ bornAt = <<>>
    /\ firstRet = <<>>
    /\ ret = [op |-> "none"]
    /\ rejectPts = {}
    /\ rejectIds = {}
    /\ ScanIdle
    /\ ZoomIdle
    /\ UrlIdle
    /\ GridIdle
    /\ MapIdle
    /\ mapZoom \in 0..18
    /\ isTouchDevice = FALSE

\* one move of the mouse per run, at any zoom 0..18
NextPanel ==
    \/ /\ nextId = 0
       /\ mousemove(407128000, LngNYC)
    \/ mouseout
    \/ DebounceFire
    \/ FrameFire
    \/ FadeFire
    \/ handleToggleInfo
    \/ Advance(Quantum)

SpecPanel == InitPanel /\ [][NextPanel]_vars

\* C29: with a debounced cursor position and the display toggled on, the
\* panel is rendered with the index and the resolution of the cell of that
\* position at the resolution of the zoom, whatever the zoom; it is absent
\* only without a position or with the display toggled off.
C29_PanelShowsCell ==
    /\ (debouncedCursorPos # Null /\ showCellInfo) =>
          /\ PanelRendered
          /\ cellInfo.resolution = getH3ResolutionForZoom(mapZoom)
          /\ cellInfo.h3Index = latLngToCell(debouncedCursorPos.lat,
                                             debouncedCursorPos.lng,
                                             cellInfo.resolution)
    /\ ~PanelRendered => (debouncedCursorPos = Null \/ ~showCellInfo)

----------------------------------------------------------------------------
(* The layer in single-cell mode *)

FadeTimers == {t \in timers : t.kind = "fade"}

\* C30: while the layer's cursor position is null isVisible is false,
\* whatever callbacks fire; the timer that clears cellInfo is pending from
\* the moment the cursor left until it fires, and it is cancelled when the
\* cursor is back.
C30_HiddenWhileCursorGone ==
    /\ debouncedCursorPos = Null => ~isVisible
    /\ debouncedCursorPos = Null =>
          (layerCellInfo = Null \/ Cardinality(FadeTimers) = 1)
    /\ debouncedCursorPos # Null => FadeTimers = {}

----------------------------------------------------------------------------
(* The view state read from and written to the URL *)

\* a latitude parameter: missing, empty, no number, above 90, the lowest
\* latitude, a number followed by letters, a number after a blank, zero
UrlLatInputs ==
    {NoParam, Str(<<>>), Str(<<"a", "b", "c">>), Str(<<"9", "1">>),
     Str(<<"-", "9", "0">>), Str(<<"4", "5", "a">>),
     Str(<<" ", "1", "2", ".", "5">>), Str(<<"0">>)}

\* a longitude parameter: missing, a sign alone, below -180, the highest
\* longitude, a fraction without an integer part
UrlLngInputs ==
    {NoParam, Str(<<"-">>), Str(<<"-", "1", "8", "1">>),
     Str(<<"1", "8", "0">>), Str(<<".", "5">>)}

\* a zoom parameter: missing, empty, no number, negative, above 18, the
\* two ends of the range, a number with decimals
UrlZoomInputs ==
    {NoParam, Str(<<>>), Str(<<"x">>), Str(<<"-", "1">>), Str(<<"1", "9">>),
     Str(<<"0">>), Str(<<"1", "8">>), Str(<<"1", "2", ".", "9">>)}

UrlInputs ==
    [lat : UrlLatInputs, lng : UrlLngInputs, zoom : UrlZoomInputs]

\* the centres the map reports: New York, a point just south of the
\* equator, one that rounds to the pole, one with a tie at the fifth decimal
MoveLats == {407128000, -400, 899999600, 515074500}

\* New York, the date line, and a centre the map reports after it was
\* dragged across the date line
MoveLngs == {-74 * Deg - 60000, 180 * Deg, 200 * Deg}

\* the zooms of the map: from 0 to the maxZoom of its tile layer
MoveZooms == {0, 10, 18, 19}

InitUrl ==
    /\ cellCache = <<>>
    /\ rejectPts = {}
    /\ rejectIds = {}
    /\ ret = [op |-> "none"]
    /\ bornAt = <<>>
    /\ tick = 0
    /\ firstRet = <<>>
    /\ ScanIdle
    /\ ZoomIdle
    /\ AppIdle
    /\ urlParams \in UrlInputs
    /\ urlState = getStateFromUrl(urlParams)
    /\ urlWritten = Null

\* MapContainer.tsx lines 199-201, called by moveend and zoomend
handleMapMove(la, lo, z) ==
    /\ WriteUrl([lat |-> la, lng |-> lo, zoom |-> z])
    /\ UNCHANGED <<envVars, cacheVars, scanVars, zoomVars, appVars>>

\* the browser shows another URL of the page: the hook reads it again
Navigate(params) ==
    /\ urlParams' = params
    /\ urlState' = getStateFromUrl(params)
    /\ urlWritten' = Null
    /\ UNCHANGED <<envVars, cacheVars, scanVars, zoomVars, appVars>>

NextUrl ==
    \/ \E la \in MoveLats, lo \in MoveLngs, z \in MoveZooms :
          handleMapMove(la, lo, z)
    \/ \E params \in UrlInputs : Navigate(params)

SpecUrl == InitUrl /\ [][NextUrl]_vars

\* x rounded to the nearest 10^-4 degree
Round4(x) ==
    IF x < 0 THEN -(((-x + 500) \div 1000) * 1000)
    ELSE ((x + 500) \div 1000) * 1000

\* the parameter is missing or empty, has no number, or has one out of range
FallsBack(p, number, low, high) ==
    \/ ~p.present
    \/ p.chars = <<>>
    \/ number.none
    \/ number.v < low
    \/ number.v > high

C25_StateInRange ==
    /\ urlState.lat >= -90 * Deg /\ urlState.lat <= 90 * Deg
    /\ urlState.lng >= -180 * Deg /\ urlState.lng <= 180 * Deg
    /\ urlState.zoom \in 0..18

C25_FallsBackAlone ==
    LET la == parseFloat(urlParams.lat.chars)
        lo == parseFloat(urlParams.lng.chars)
        z  == parseInt(urlParams.zoom.chars)
    IN  /\ urlState.lat = IF FallsBack(urlParams.lat, la, -90 * Deg, 90 * Deg)
                          THEN DEFAULT_STATE.lat ELSE la.v
        /\ urlState.lng = IF FallsBack(urlParams.lng, lo, -180 * Deg, 180 * Deg)
                          THEN DEFAULT_STATE.lng ELSE lo.v
        /\ urlState.zoom = IF FallsBack(urlParams.zoom, z, 0, 18)
                           THEN DEFAULT_STATE.zoom ELSE z.v

C25_ReadsBackWritten ==
    urlWritten # Null =>
        /\ urlState.lat = Round4(urlWritten.lat)
        /\ urlState.lng = Round4(urlWritten.lng)
        /\ urlState.zoom = urlWritten.zoom

\* C25: the state read from the URL has its latitude in -90..90, its
\* longitude in -180..180 and an integer zoom in 0..18; a parameter that is
\* missing, has no number or is out of range gives its own default whatever
\* the other two are; and after updateState the state read is the state
\* written, with latitude and longitude rounded to 4 decimals.
C25_UrlStateRoundTrips ==
    /\ C25_StateInRange
    /\ C25_FallsBackAlone
    /\ C25_ReadsBackWritten

====
